---- MODULE Spec2Model ----
(***************************************************************************)
(* Collaborative editing core of the note app.                             *)
(*                                                                         *)
(*   backend  socket handlers   (setupSocketHandlers: join-note,           *)
(*            leave-note, content-change, full-content-update,             *)
(*            cursor-position, disconnect, the session sweep)              *)
(*   mobile   CollaborationService (joinNote, leaveNote, sendContentChange,*)
(*            sendCursorPosition, the socket event handlers, the           *)
(*            operational-transform functions) and the note screen's       *)
(*            listeners.                                                   *)
(*                                                                         *)
(* Texts are sequences of one-character strings.  Time is counted in       *)
(* sweep intervals (one unit = 60000 ms).                                  *)
(***************************************************************************)
EXTENDS Integers, Sequences, FiniteSets, TLC

\* ------------------------------------------------------------------ bounds
\* Longest base text given to the transform functions.
MaxText == 3
\* Longest inserted payload given to the transform functions.
MaxInsert == 2
\* Client connections (one per running app).
NumSockets == 2
\* Notes that can be opened.
NumNotes == 1
\* Longest queue of messages in flight on one connection, per direction.
MaxQueue == 1
\* Last instant of the clock.
MaxTime == 6
\* Full-content updates the clients send in a run.
MaxUpdates == 1
\* Operations (content-change events) the clients send in a run.
MaxOps == 2
\* joinNote calls of one client that wait in ensureInitialized together.
MaxCalls == 2
\* HTTP requests on the note in progress together.
MaxRequests == 2
\* Version records saved by the requests.
MaxSaves == 2

\* const timeout = 5 * 60 * 1000, in units of the sweep interval (60000 ms).
Timeout == 5

\* ---------------------------------------------------------- pure functions

\* Author ids, listed in lexicographic order.
Users == <<"a", "b">>
UserIds == {Users[i] : i \in 1..Len(Users)}

Min(x, y) == IF x <= y THEN x ELSE y
Max(x, y) == IF x >= y THEN x ELSE y

\* String.prototype.slice(start, end) with 0-based indices: a negative index
\* counts from the end, both are clamped to [0, length], and the result is
\* empty when start >= end.
Slice(text, start, end) ==
  LET len  == Len(text)
      from == IF start < 0 THEN Max(len + start, 0) ELSE Min(start, len)
      to   == IF end < 0 THEN Max(len + end, 0) ELSE Min(end, len)
  IN  IF from >= to THEN <<>> ELSE SubSeq(text, from + 1, to)

\* String.prototype.slice(start): to the end of the string.
SliceFrom(text, start) == Slice(text, start, Len(text))

\* An OperationalTransform value.  A delete carries no content (content is
\* the empty text); timestamp is read by none of the functions below.
InsertOp(position, content, userId) ==
  [type |-> "insert", position |-> position, content |-> content,
   length |-> Len(content), userId |-> userId]

DeleteOp(position, length, userId) ==
  [type |-> "delete", position |-> position, content |-> <<>>,
   length |-> length, userId |-> userId]

RetainOp(length, userId) ==
  [type |-> "retain", position |-> 0, content |-> <<>>,
   length |-> length, userId |-> userId]

applyOperation(text, operation) ==
  CASE operation.type = "insert" ->
         Slice(text, 0, operation.position) \o operation.content
           \o SliceFrom(text, operation.position)
    [] operation.type = "delete" ->
         Slice(text, 0, operation.position)
           \o SliceFrom(text, operation.position + operation.length)
    [] OTHER -> text

\* Mutant of transformOperations: an insert behind a delete keeps its
\* position.
transformOperationsNoShift(op1, op2) ==
  CASE op1.type = "insert" /\ op2.type = "insert" ->
         IF op1.position <= op2.position
         THEN <<op1, [op2 EXCEPT !.position = op2.position + op1.length]>>
         ELSE <<[op1 EXCEPT !.position = op1.position + op2.length], op2>>
    [] op1.type = "delete" /\ op2.type = "delete" ->
         IF op1.position <= op2.position
         THEN <<op1, [op2 EXCEPT !.position = op2.position - op1.length]>>
         ELSE <<[op1 EXCEPT !.position = op1.position - op2.length], op2>>
    [] op1.type = "insert" /\ op2.type = "delete" ->
         IF op1.position <= op2.position
         THEN <<op1, [op2 EXCEPT !.position = op2.position + op1.length]>>
         ELSE <<op1, op2>>
    [] op1.type = "delete" /\ op2.type = "insert" ->
         IF op1.position <= op2.position
         THEN <<op1, op2>>
         ELSE <<[op1 EXCEPT !.position = op1.position + op2.length], op2>>
    [] OTHER -> <<op1, op2>>

\* Returns the pair <<op1', op2'>>.
transformOperations(op1, op2) ==
  CASE op1.type = "insert" /\ op2.type = "insert" ->
         IF op1.position <= op2.position
         THEN <<op1, [op2 EXCEPT !.position = op2.position + op1.length]>>
         ELSE <<[op1 EXCEPT !.position = op1.position + op2.length], op2>>
    [] op1.type = "delete" /\ op2.type = "delete" ->
         IF op1.position <= op2.position
         THEN <<op1, [op2 EXCEPT !.position = op2.position - op1.length]>>
         ELSE <<[op1 EXCEPT !.position = op1.position - op2.length], op2>>
    [] op1.type = "insert" /\ op2.type = "delete" ->
         IF op1.position <= op2.position
         THEN <<op1, [op2 EXCEPT !.position = op2.position + op1.length]>>
         ELSE <<[op1 EXCEPT !.position = op1.position - op2.length], op2>>
    [] op1.type = "delete" /\ op2.type = "insert" ->
         IF op1.position <= op2.position
         THEN <<op1, [op2 EXCEPT !.position = op2.position - op1.length]>>
         ELSE <<[op1 EXCEPT !.position = op1.position + op2.length], op2>>
    [] OTHER -> <<op1, op2>>

\* ------------------------------------------------- inputs of the functions
Alphabet == <<"a", "b", "c", "d", "e", "f">>
\* Base texts: the prefixes of the alphabet, so that every character of a
\* base is distinct and a deletion is visible in the result.
BaseTexts == {SubSeq(Alphabet, 1, n) : n \in 0..MaxText}
\* Inserted payloads: non-empty texts over {"x", "y"}.
Payloads == UNION {[1..n -> {"x", "y"}] : n \in 1..MaxInsert}

\* The insert and delete operations that are valid against base: an insert
\* position within [0, length], a delete range within the text.
ValidOps(base) ==
  {InsertOp(p, c, u) : p \in 0..Len(base), c \in Payloads, u \in UserIds}
    \cup
  UNION {{DeleteOp(p, l, u) : l \in 1..(Len(base) - p), u \in UserIds}
           : p \in 0..Len(base)}

\* ------------------------------------------------------------ the system
Sockets == 1..NumSockets
NoteNames == <<"n1", "n2", "n3">>
Notes == {NoteNames[i] : i \in 1..NumNotes}
\* null / undefined where a note id or a user id is expected.
NoNote == ""
NoUser == ""
\* Full contents a user can type into the editor.
Contents == {<<>>, <<"x">>, <<"y">>}
\* Operations a client can send as a content-change, authored by userId.
SentOps(userId) == {InsertOp(0, <<"x">>, userId), InsertOp(1, <<"y">>, userId),
                    DeleteOp(0, 1, userId)}
\* selection of a cursor message: 0 is undefined (the periodic heartbeat).
Selections == {0, 1}

VARIABLES
  ot,              \* the pure functions' inputs and results (SpecOT,
                   \* SpecPresence)
  connected,       \* server: sockets with handlers registered
  socketUser,      \* server: socket.data.user.id of each socket
  rooms,           \* server: socket.io rooms, note id -> sockets joined
  activeSessions,  \* server: Map note id -> list of CollaborationSession
  now,             \* the clock
  toServer,        \* events in flight, client -> server, per socket
  inbox,           \* events in flight, server -> client, per socket
  token,           \* client: the auth token stored on the device
  user,            \* client: the user signed in (AuthContext)
  service,         \* client: the CollaborationService singleton
  screen,          \* client: the note screen's state
  relayed,         \* history: per note, the edits the server has broadcast
                   \* (sender, the room's sockets then, the sender's base,
                   \* what was received and what was broadcast)
  edits,           \* number of edits the clients have sent
  NoteVersion,     \* backend: the NoteVersion collection (one note's records)
  requests,        \* backend: the HTTP requests in progress on the note
  objectIds        \* backend: number of document ids generated

vars == <<ot, connected, socketUser, rooms, activeSessions, now, toServer,
          inbox, token, user, service, screen, relayed, edits,
          NoteVersion, requests, objectIds>>

serverVars == <<connected, socketUser, rooms, activeSessions>>
collabVars == <<connected, socketUser, rooms, activeSessions, now, toServer,
                inbox, token, user, service, screen, relayed, edits>>
versionVars == <<NoteVersion, requests, objectIds>>
sysVars == <<collabVars, versionVars>>

\* -------------------------------------------------------------- transport
\* An event in flight.  room is the note whose handler emitted a server
\* event (NoNote for a client's emit); it is known to the transport and is
\* not part of the payload.  data holds exactly the payload's fields
\* (timestamps and user names are left out: nothing reads them; a cursor's
\* position {x, y} is one number, 0 for the {x: 0, y: 0} the screen sends).
Event(event, room, data) == [event |-> event, room |-> room, data |-> data]

\* A client's emit.  base is history, not payload: the number of edits of
\* the note that the server had broadcast and the sender had been delivered
\* when it emitted (the revision its edit was authored against).
ClientEvent(event, data, base) ==
  [event |-> event, room |-> NoNote, data |-> data, base |-> base]

\* socket.to(room).emit / socket.emit: msg is appended to the queue of every
\* socket of recipients.
Deliver(queues, recipients, msg) ==
  [r \in Sockets |-> IF r \in recipients THEN Append(queues[r], msg)
                     ELSE queues[r]]

\* Every recipient's queue has room for k more events.
HasRoom(queues, recipients, k) ==
  \A r \in recipients : Len(queues[r]) + k <= MaxQueue

\* The event a server handler of socket s is about to run on.
Pending(s, event) ==
  /\ s \in connected
  /\ toServer[s] # <<>>
  /\ Head(toServer[s]).event = event

\* --------------------------------------------------- the handshake
\* A token is a sequence of symbols: "." separates its parts, and a part is
\* the symbols between two separators.  The symbols of a payload stand for
\* what JSON.parse(Buffer.from(part, 'base64').toString()) makes of them.
Dot == "."

\* token.split('.'): the parts, one more than there are separators ("" has
\* the one part "").
RECURSIVE Split(_)
Split(t) ==
  IF \A i \in 1..Len(t) : t[i] # Dot THEN <<t>>
  ELSE LET i == CHOOSE k \in 1..Len(t) :
                  t[k] = Dot /\ \A j \in 1..(k - 1) : t[j] # Dot
       IN  <<SubSeq(t, 1, i - 1)>> \o Split(SubSeq(t, i + 1, Len(t)))

\* JSON.parse throws.
Malformed == [malformed |-> TRUE]

\* The payload a part decodes to.
Decode(part) ==
  CASE part = <<"sub=a">> -> [sub |-> "a"]
    [] part = <<"sub=b">> -> [sub |-> "b"]
    [] part = <<"sub=z">> -> [sub |-> "z"]
    [] part = <<"sub=">>  -> [sub |-> ""]
    [] part = <<"{}">>    -> [iat |-> 0]
    [] OTHER              -> Malformed

\* The users clerkClient.users.getUser finds.
Registered == UserIds

\* Mutant of Authenticate: the token's subject is taken as the user without
\* asking the identity provider for it.
AuthenticateTrustSubject(t) ==
  IF t = <<>> THEN NoUser
  ELSE LET tokenParts == Split(t)
       IN  IF Len(tokenParts) # 3 THEN NoUser
           ELSE LET payload == Decode(tokenParts[2])
                IN  IF payload = Malformed THEN NoUser
                    ELSE IF "sub" \notin DOMAIN payload THEN NoUser
                    ELSE payload.sub

\* The io.use middleware: the id it attaches to the socket as
\* socket.data.user.id, or NoUser when it refuses the connection with
\* next(new Error(...)).
Authenticate(t) ==
  IF t = <<>> THEN NoUser
  ELSE LET tokenParts == Split(t)
       IN  IF Len(tokenParts) # 3 THEN NoUser
           ELSE LET payload == Decode(tokenParts[2])
                IN  IF payload = Malformed THEN NoUser
                    ELSE IF "sub" \notin DOMAIN payload THEN NoUser
                    ELSE IF payload.sub = "" THEN NoUser
                    ELSE IF payload.sub \notin Registered THEN NoUser
                    ELSE payload.sub

\* The token the identity provider issued to userId.
TokenOf(userId) ==
  <<"h", Dot, IF userId = "a" THEN "sub=a" ELSE "sub=b", Dot, "s">>

\* Tokens a device can hold: none (the client then sends ''), of one, two
\* and four parts, with a payload that is not JSON, without subject, with
\* an empty subject, of a user the provider does not know, and the users'.
Tokens ==
  {<<>>, <<"h">>, <<"h", Dot, "sub=a">>,
   <<"h", Dot, "sub=a", Dot, "s", Dot, "s">>,
   <<"h", Dot, "~", Dot, "s">>, <<"h", Dot, "{}", Dot, "s">>,
   <<"h", Dot, "sub=", Dot, "s">>, <<"h", Dot, "sub=z", Dot, "s">>}
    \cup {TokenOf(u) : u \in UserIds}

\* ----------------------------------------------------------------- server
\* activeSessions.get(noteId) || []
SessionsOf(noteId) ==
  IF noteId \in DOMAIN activeSessions THEN activeSessions[noteId] ELSE <<>>

\* sessions.findIndex(s => s.userId === userId), 1-based, 0 for not found.
FindIndex(sessions, userId) ==
  IF \E i \in 1..Len(sessions) : sessions[i].userId = userId
  THEN CHOOSE i \in 1..Len(sessions) :
         /\ sessions[i].userId = userId
         /\ \A j \in 1..(i - 1) : sessions[j].userId # userId
  ELSE 0

\* sessions.splice(index, 1)
Splice(sessions, index) ==
  SubSeq(sessions, 1, index - 1) \o SubSeq(sessions, index + 1, Len(sessions))

\* activeSessions.set(noteId, sessions)
MapSet(map, noteId, sessions) ==
  [n \in DOMAIN map \cup {noteId} |->
     IF n = noteId THEN sessions ELSE map[n]]

\* activeSessions.delete(noteId)
MapDelete(map, noteId) == [n \in DOMAIN map \ {noteId} |-> map[n]]

\* Mutant of JoinSessions: the session is pushed without looking for an
\* existing one.
JoinSessionsAlwaysPush(sessions, userId) ==
  Append(sessions, [userId |-> userId, lastActive |-> now])

\* The list join-note leaves for the note: a session is pushed only when
\* none has this userId; otherwise the existing one's lastActive is renewed.
JoinSessions(sessions, userId) ==
  LET index == FindIndex(sessions, userId)
  IN  IF index = 0
      THEN Append(sessions, [userId |-> userId, lastActive |-> now])
      ELSE [sessions EXCEPT ![index].lastActive = now]

\* Mutant of JoinNoteHandler: user-joined is emitted with io.to(noteId), to
\* every socket of the room, the joiner's included.
JoinNoteHandlerToAll(s) ==
  /\ Pending(s, "join-note")
  /\ LET data     == Head(toServer[s]).data
         noteId   == data.noteId
         sessions == JoinSessions(SessionsOf(noteId), data.userId)
         all      == rooms[noteId] \cup {s}
     IN  /\ HasRoom(inbox, all, 1)
         /\ rooms' = [rooms EXCEPT ![noteId] = @ \cup {s}]
         /\ activeSessions' = MapSet(activeSessions, noteId, sessions)
         /\ inbox' = Deliver(inbox, all,
              Event("user-joined", noteId,
                    [userId |-> data.userId,
                     activeUsers |-> [i \in 1..Len(sessions) |->
                                        sessions[i].userId]]))
  /\ toServer' = [toServer EXCEPT ![s] = Tail(@)]
  /\ UNCHANGED <<ot, versionVars, token, user, connected, socketUser, now, service, screen, relayed,
                 edits>>

\* socket.on('join-note')
JoinNoteHandler(s) ==
  /\ Pending(s, "join-note")
  /\ LET data     == Head(toServer[s]).data
         noteId   == data.noteId
         sessions == JoinSessions(SessionsOf(noteId), data.userId)
         others   == (rooms[noteId] \cup {s}) \ {s}
     IN  /\ HasRoom(inbox, others, 1)
         /\ rooms' = [rooms EXCEPT ![noteId] = @ \cup {s}]
         /\ activeSessions' = MapSet(activeSessions, noteId, sessions)
         /\ inbox' = Deliver(inbox, others,
              Event("user-joined", noteId,
                    [userId |-> data.userId,
                     activeUsers |-> [i \in 1..Len(sessions) |->
                                        sessions[i].userId]]))
  /\ toServer' = [toServer EXCEPT ![s] = Tail(@)]
  /\ UNCHANGED <<ot, versionVars, token, user, connected, socketUser, now, service, screen, relayed,
                 edits>>

\* The map leave-note leaves: the first session with this userId is spliced
\* out, and the key is deleted when that empties the list.
LeaveSessions(map, noteId, userId) ==
  IF noteId \notin DOMAIN map THEN map
  ELSE LET index == FindIndex(map[noteId], userId)
       IN  IF index = 0 THEN map
           ELSE LET left == Splice(map[noteId], index)
                IN  IF Len(left) = 0 THEN MapDelete(map, noteId)
                    ELSE MapSet(map, noteId, left)

\* socket.on('leave-note')
LeaveNoteHandler(s) ==
  /\ Pending(s, "leave-note")
  /\ LET data   == Head(toServer[s]).data
         noteId == data.noteId
         others == rooms[noteId] \ {s}
     IN  /\ HasRoom(inbox, others, 1)
         /\ rooms' = [rooms EXCEPT ![noteId] = @ \ {s}]
         /\ activeSessions' = LeaveSessions(activeSessions, noteId, data.userId)
         /\ inbox' = Deliver(inbox, others,
              Event("user-left", noteId, [userId |-> data.userId]))
  /\ toServer' = [toServer EXCEPT ![s] = Tail(@)]
  /\ UNCHANGED <<ot, versionVars, token, user, connected, socketUser, now, service, screen, relayed,
                 edits>>

\* socket.on('content-change'): the operation is broadcast to the other
\* sockets of the room and confirmed to the sender, both as received.
ContentChangeHandler(s) ==
  /\ Pending(s, "content-change")
  /\ LET m      == Head(toServer[s])
         data   == m.data
         noteId == data.noteId
         others == rooms[noteId] \ {s}
         toOthers == Deliver(inbox, others,
                       Event("content-change", noteId,
                             [userId |-> data.userId,
                              operation |-> data.operation]))
     IN  /\ HasRoom(inbox, others \cup {s}, 1)
         /\ inbox' = Deliver(toOthers, {s},
              Event("content-change-received", noteId,
                    [userId |-> data.userId, operation |-> data.operation]))
         /\ relayed' = [relayed EXCEPT ![noteId] = Append(@,
              [kind |-> "operation", socket |-> s, members |-> rooms[noteId],
               base |-> m.base, authored |-> data.operation,
               operation |-> data.operation])]
  /\ toServer' = [toServer EXCEPT ![s] = Tail(@)]
  /\ UNCHANGED <<ot, versionVars, token, user, serverVars, now, service, screen, edits>>

\* socket.on('full-content-update')
FullContentUpdateHandler(s) ==
  /\ Pending(s, "full-content-update")
  /\ LET m      == Head(toServer[s])
         data   == m.data
         noteId == data.noteId
         others == rooms[noteId] \ {s}
         toOthers == Deliver(inbox, others,
                       Event("full-content-update", noteId,
                             [userId |-> data.userId,
                              content |-> data.content]))
     IN  /\ HasRoom(inbox, others \cup {s}, 1)
         /\ inbox' = Deliver(toOthers, {s},
              Event("full-content-update-received", noteId,
                    [userId |-> data.userId, content |-> data.content]))
         /\ relayed' = [relayed EXCEPT ![noteId] = Append(@,
              [kind |-> "full", socket |-> s, members |-> rooms[noteId],
               base |-> m.base, content |-> data.content])]
  /\ toServer' = [toServer EXCEPT ![s] = Tail(@)]
  /\ UNCHANGED <<ot, versionVars, token, user, serverVars, now, service, screen, edits>>

\* socket.on('cursor-position')
CursorPositionHandler(s) ==
  /\ Pending(s, "cursor-position")
  /\ LET data   == Head(toServer[s]).data
         noteId == data.noteId
         others == rooms[noteId] \ {s}
     IN  /\ HasRoom(inbox, others, 1)
         /\ inbox' = Deliver(inbox, others,
              Event("cursor-position", noteId,
                    [userId |-> data.cursor.userId,
                     position |-> data.cursor.position,
                     selection |-> data.cursor.selection,
                     color |-> data.cursor.color]))
  /\ toServer' = [toServer EXCEPT ![s] = Tail(@)]
  /\ UNCHANGED <<ot, versionVars, token, user, serverVars, now, service, screen, relayed, edits>>

\* The notes whose list holds a session of userId.
NotesWithSessionOf(map, userId) ==
  {n \in DOMAIN map : FindIndex(map[n], userId) # 0}

\* The map the disconnect handler leaves: in every note with a session of
\* userId the list is replaced by the sessions of the other users (the key
\* stays, also with an empty list).
DisconnectSessions(map, userId) ==
  [n \in DOMAIN map |->
     LET Other(session) == session.userId # userId
     IN  SelectSeq(map[n], Other)]

\* One 'user-disconnected' per note of notes, to the sockets of its room.
\* The handler emits them in the Map's iteration order; the payloads are the
\* same for every note, so the order taken here is an arbitrary one.
RECURSIVE NotifyDisconnected(_, _, _, _)
NotifyDisconnected(queues, notes, roomOf, userId) ==
  IF notes = {} THEN queues
  ELSE LET n == CHOOSE x \in notes : TRUE
       IN  NotifyDisconnected(
             Deliver(queues, roomOf[n],
                     Event("user-disconnected", n, [userId |-> userId])),
             notes \ {n}, roomOf, userId)

\* The server's side of the closing of socket s's connection: socket.io
\* takes the socket out of its rooms, then socket.on('disconnect') runs.
\* What was in flight on the connection is lost.
ConnectionCloses(s) ==
  /\ LET userId   == socketUser[s]
         affected == NotesWithSessionOf(activeSessions, userId)
         left     == [n \in Notes |-> rooms[n] \ {s}]
     IN  /\ HasRoom(inbox, UNION {left[n] : n \in affected},
                    Cardinality(affected))
         /\ rooms' = left
         /\ activeSessions' = DisconnectSessions(activeSessions, userId)
         /\ inbox' = [NotifyDisconnected(inbox, affected, left, userId)
                        EXCEPT ![s] = <<>>]
  /\ connected' = connected \ {s}
  /\ toServer' = [toServer EXCEPT ![s] = <<>>]

\* The connection of socket s closes, and the client's socket reports
\* connected = false.
Disconnect(s) ==
  /\ s \in connected
  /\ ConnectionCloses(s)
  /\ service' = [service EXCEPT ![s].connected = FALSE]
  /\ UNCHANGED <<ot, versionVars, token, user, socketUser, now, screen, relayed, edits>>

\* The map the sweep leaves at instant time: every list keeps the sessions
\* active less than Timeout ago, and a note whose list empties is deleted.
SweepSessions(map, time) ==
  LET Active(session) == time - session.lastActive < Timeout
      kept == {n \in DOMAIN map : Len(SelectSeq(map[n], Active)) # 0}
  IN  [n \in kept |-> SelectSeq(map[n], Active)]

\* The setInterval callback: one interval passes and the sweep runs.
Sweep ==
  /\ now < MaxTime
  /\ now' = now + 1
  /\ activeSessions' = SweepSessions(activeSessions, now + 1)
  /\ UNCHANGED <<ot, versionVars, token, user, connected, socketUser, rooms, toServer, inbox, service,
                 screen, relayed, edits>>

\* ----------------------------------------------------------------- client
\* 'a'.charCodeAt(0), 'b'.charCodeAt(0)
CharCodeAt0(userId) == IF userId = "a" THEN 97 ELSE 98

colors == <<"#FF6B6B", "#4ECDC4", "#45B7D1", "#96CEB4", "#FFEAA7",
            "#DDA0DD", "#98D8C8", "#F7DC6F", "#BB8FCE", "#85C1E9">>

\* Mutant of getUserColor: a colour outside the palette.
getUserColorDefault(userId) == "#000000"

getUserColor(userId) == colors[(CharCodeAt0(userId) % Len(colors)) + 1]

\* The events the server emits for an edit of a note: the broadcast to the
\* others and the confirmation to the sender.
EditEvents == {"content-change", "content-change-received",
               "full-content-update", "full-content-update-received"}

\* History: the number of edits of note n the server has broadcast and
\* socket s has been delivered (or that predate what is still in its inbox).
BaseOf(s, n) ==
  Len(relayed[n])
    - Cardinality({i \in 1..Len(inbox[s]) :
                     inbox[s][i].room = n /\ inbox[s][i].event \in EditEvents})

\* this.socket.emit(event, data)
Emit(s, event, data, n) ==
  /\ Len(toServer[s]) < MaxQueue
  /\ toServer' = [toServer EXCEPT ![s] =
                    Append(@, ClientEvent(event, data, BaseOf(s, n)))]

\* The note screen before it shows a note: useState(''), useState(false)
\* and useState([]).
Unmounted ==
  [id |-> NoNote, content |-> <<>>, previousContent |-> <<>>,
   isCollaborating |-> FALSE, activeUsers |-> <<>>]

\* The note screen for note n mounts and its effect calls
\* setupCollaboration, which calls joinNote(n, user.id, ...).
\* ensureInitialized finds the service initialized with its socket, or
\* finds the backend reachable and sets the socket up; past it, joinNote
\* records the note and the user and goes on to connect.  One joinNote call
\* is past ensureInitialized at a time.
OpenNote(s, n) ==
  /\ screen[s].id = NoNote
  /\ service[s].joining = NoNote
  /\ \/ ~service[s].isInitialized /\ service[s].awaiting = <<>>
     \/ service[s].isInitialized /\ service[s].hasSocket
  /\ screen' = [screen EXCEPT ![s] = [Unmounted EXCEPT !.id = n]]
  /\ service' = [service EXCEPT ![s].isInitialized = TRUE,
                                ![s].hasSocket = TRUE,
                                ![s].currentNoteId = n,
                                ![s].userId = user[s],
                                ![s].joining = n,
                                ![s].joiningUser = user[s]]
  /\ UNCHANGED <<ot, versionVars, token, user, serverVars, now, toServer, inbox, relayed, edits>>

\* joinNote: this.socket.connect() succeeds.  The handshake carries the
\* stored token; the middleware accepts it and attaches its user to the
\* socket, and the server registers the handlers.
JoinConnect(s) ==
  /\ service[s].joining # NoNote
  /\ service[s].hasSocket
  /\ ~service[s].connected
  /\ Authenticate(token[s]) # NoUser
  /\ connected' = connected \cup {s}
  /\ socketUser' = [socketUser EXCEPT ![s] = Authenticate(token[s])]
  /\ service' = [service EXCEPT ![s].connected = TRUE]
  /\ UNCHANGED <<ot, versionVars, token, user, rooms, activeSessions, now, toServer, inbox, screen,
                 relayed, edits>>

\* The socket.io client reconnects by itself after its connection was lost
\* (the socket is created without reconnection: false): the handshake is
\* repeated with the stored token and the server registers the handlers
\* for a new socket, which is in no room.  The client's 'connect' handler
\* only logs: nothing is emitted.
Reconnect(s) ==
  /\ socketUser[s] # NoUser
  /\ service[s].hasSocket
  /\ s \notin connected
  /\ ~service[s].connected
  /\ Authenticate(token[s]) # NoUser
  /\ connected' = connected \cup {s}
  /\ socketUser' = [socketUser EXCEPT ![s] = Authenticate(token[s])]
  /\ service' = [service EXCEPT ![s].connected = TRUE]
  /\ UNCHANGED <<ot, versionVars, token, user, rooms, activeSessions, now, toServer, inbox,
                 screen, relayed, edits>>

\* joinNote: the connection attempt times out or fails (connect_error, as
\* when the middleware refuses the token); joinNote throws and
\* setupCollaboration sets isCollaborating to false.
JoinFail(s) ==
  /\ service[s].joining # NoNote
  /\ ~service[s].connected
  /\ service' = [service EXCEPT ![s].joining = NoNote,
                                ![s].joiningUser = NoUser]
  /\ screen' = [screen EXCEPT ![s].isCollaborating = FALSE]
  /\ UNCHANGED <<ot, versionVars, token, user, serverVars, now, toServer, inbox, relayed, edits>>

\* joinNote, connected: emits join-note for its own arguments and returns;
\* setupCollaboration then sets isCollaborating and registers the content
\* and cursor listeners of the note.  (A state update of a screen that has
\* unmounted meanwhile has no effect.)
JoinEmit(s) ==
  /\ service[s].joining # NoNote
  /\ service[s].connected
  /\ LET n == service[s].joining
     IN  /\ Emit(s, "join-note",
                 [noteId |-> n, userId |-> service[s].joiningUser], n)
         /\ service' = [service EXCEPT ![s].joining = NoNote,
                                       ![s].joiningUser = NoUser,
                                       ![s].listeners = @ \cup {n}]
         /\ screen' = [screen EXCEPT ![s].isCollaborating =
                         IF screen[s].id = n THEN TRUE ELSE @]
  /\ UNCHANGED <<ot, versionVars, token, user, serverVars, now, inbox, relayed, edits>>

\* The sequence q without its i-th element.
Without(q, i) == SubSeq(q, 1, i - 1) \o SubSeq(q, i + 1, Len(q))

\* The note screen for note n mounts while the service is not initialized:
\* its joinNote call enters ensureInitialized and waits for the answer of
\* testBackendConnection.
StartJoin(s, n) ==
  /\ screen[s].id = NoNote
  /\ ~service[s].isInitialized
  /\ Len(service[s].awaiting) < MaxCalls
  /\ screen' = [screen EXCEPT ![s] = [Unmounted EXCEPT !.id = n]]
  /\ service' = [service EXCEPT ![s].awaiting =
                    Append(@, [noteId |-> n, userId |-> user[s]])]
  /\ UNCHANGED <<ot, versionVars, token, user, serverVars, now, toServer, inbox, relayed, edits>>

\* ensureInitialized of the i-th waiting call finds the backend unreachable:
\* it sets isInitialized and returns.  joinNote records its note and user,
\* and throws 'Socket not initialized' when there is no socket
\* (setupCollaboration then sets isCollaborating to false); with the socket
\* that another call has set up meanwhile, it goes on to connect.
InitUnreachable(s, i) ==
  /\ i \in 1..Len(service[s].awaiting)
  /\ LET call == service[s].awaiting[i]
         init == [service EXCEPT ![s].isInitialized = TRUE,
                                 ![s].awaiting = Without(@, i),
                                 ![s].currentNoteId = call.noteId,
                                 ![s].userId = call.userId]
     IN  IF service[s].hasSocket
         THEN /\ service[s].joining = NoNote
              /\ service' = [init EXCEPT ![s].joining = call.noteId,
                                         ![s].joiningUser = call.userId]
              /\ UNCHANGED screen
         ELSE /\ service' = init
              /\ screen' = [screen EXCEPT ![s].isCollaborating = FALSE]
  /\ UNCHANGED <<ot, versionVars, token, user, serverVars, now, toServer, inbox, relayed, edits>>

\* ensureInitialized of the i-th waiting call finds the backend reachable:
\* setupSocket assigns the socket and isInitialized is set; joinNote
\* records its note and user and goes on to connect.  (The call that would
\* replace a socket already set up is left out.)
InitReachable(s, i) ==
  /\ i \in 1..Len(service[s].awaiting)
  /\ ~service[s].hasSocket
  /\ service[s].joining = NoNote
  /\ LET call == service[s].awaiting[i]
     IN  service' = [service EXCEPT ![s].isInitialized = TRUE,
                                   ![s].hasSocket = TRUE,
                                   ![s].awaiting = Without(@, i),
                                   ![s].currentNoteId = call.noteId,
                                   ![s].userId = call.userId,
                                   ![s].joining = call.noteId,
                                   ![s].joiningUser = call.userId]
  /\ UNCHANGED <<ot, versionVars, token, user, serverVars, now, toServer, inbox, screen,
                 relayed, edits>>

\* The note screen for note n mounts while the service is initialized
\* without a socket: ensureInitialized returns at once, joinNote records the
\* note and the user and throws 'Socket not initialized'.
OpenNoteRejected(s, n) ==
  /\ screen[s].id = NoNote
  /\ service[s].isInitialized
  /\ ~service[s].hasSocket
  /\ screen' = [screen EXCEPT ![s] = [Unmounted EXCEPT !.id = n]]
  /\ service' = [service EXCEPT ![s].currentNoteId = n,
                                ![s].userId = user[s]]
  /\ UNCHANGED <<ot, versionVars, token, user, serverVars, now, toServer, inbox, relayed, edits>>

\* disconnect() with isInitialized set to false as well.
ServiceDisconnectReset(s) ==
  /\ service[s].isInitialized
  /\ IF s \in connected
     THEN ConnectionCloses(s)
     ELSE UNCHANGED <<serverVars, toServer, inbox>>
  /\ service' = [service EXCEPT ![s].isInitialized = FALSE,
                                ![s].hasSocket = FALSE,
                                ![s].connected = FALSE,
                                ![s].currentNoteId = NoNote,
                                ![s].userId = NoUser,
                                ![s].listeners = {}]
  /\ UNCHANGED <<ot, versionVars, token, user, socketUser, now, screen, relayed, edits>>

\* disconnect() of the service, once initialized: the socket, if any, is
\* disconnected and dropped, the note and the user are forgotten and every
\* listener is removed; isInitialized is left as it is.
ServiceDisconnect(s) ==
  /\ service[s].isInitialized
  /\ IF s \in connected
     THEN ConnectionCloses(s)
     ELSE UNCHANGED <<serverVars, toServer, inbox>>
  /\ service' = [service EXCEPT ![s].hasSocket = FALSE,
                                ![s].connected = FALSE,
                                ![s].currentNoteId = NoNote,
                                ![s].userId = NoUser,
                                ![s].listeners = {}]
  /\ UNCHANGED <<ot, versionVars, token, user, socketUser, now, screen, relayed, edits>>

\* The effect's cleanup as the screen unmounts: clearNoteListeners(id) and
\* leaveNote(), which emits leave-note only when connected and in a note.
CloseNote(s) ==
  /\ screen[s].id # NoNote
  /\ IF service[s].connected /\ service[s].currentNoteId # NoNote
     THEN Emit(s, "leave-note",
               [noteId |-> service[s].currentNoteId,
                userId |-> service[s].userId], service[s].currentNoteId)
     ELSE UNCHANGED toServer
  /\ service' = [service EXCEPT ![s].listeners = @ \ {screen[s].id},
                                ![s].currentNoteId = NoNote,
                                ![s].userId = NoUser]
  /\ screen' = [screen EXCEPT ![s] = Unmounted]
  /\ UNCHANGED <<ot, versionVars, token, user, serverVars, now, inbox, relayed, edits>>

\* sendContentChange's condition.
CanSend(s) == service[s].connected /\ service[s].currentNoteId # NoNote

\* handleContentChange(text): the user types.  The full content is sent when
\* collaborating, connected and different from the content last sent or
\* received.
HandleContentChange(s, text) ==
  /\ screen[s].id # NoNote
  /\ text # screen[s].content
  /\ IF /\ screen[s].isCollaborating
        /\ service[s].connected
        /\ text # screen[s].previousContent
     THEN /\ screen' = [screen EXCEPT ![s].content = text,
                                      ![s].previousContent = text]
          /\ IF CanSend(s)
             THEN /\ edits < MaxUpdates
                  /\ edits' = edits + 1
                  /\ Emit(s, "full-content-update",
                          [noteId |-> service[s].currentNoteId,
                           content |-> text,
                           userId |-> service[s].userId],
                          service[s].currentNoteId)
             ELSE UNCHANGED <<toServer, edits>>
     ELSE /\ screen' = [screen EXCEPT ![s].content = text]
          /\ UNCHANGED <<toServer, edits>>
  /\ UNCHANGED <<ot, versionVars, token, user, serverVars, now, inbox, service, relayed>>

\* A collaborating client emits content-change with an operation made by
\* createInsertOperation / createDeleteOperation, which stamp it with
\* this.userId (the event the server's content-change handler serves; the
\* note screen itself sends full contents only).
SendOperation(s, operation) ==
  /\ screen[s].isCollaborating
  /\ CanSend(s)
  /\ service[s].userId # NoUser
  /\ operation.userId = service[s].userId
  /\ edits < MaxOps
  /\ edits' = edits + 1
  /\ Emit(s, "content-change",
          [noteId |-> service[s].currentNoteId,
           userId |-> service[s].userId,
           operation |-> operation], service[s].currentNoteId)
  /\ UNCHANGED <<ot, versionVars, token, user, serverVars, now, inbox, service, screen, relayed>>

\* A client of the socket emits content-change with a payload that also
\* states the revision the edit is based on (a field next to the three the
\* handler destructures: the handler takes whatever object arrives).
SendEdit(s, operation, baseRevision) ==
  /\ screen[s].isCollaborating
  /\ CanSend(s)
  /\ service[s].userId # NoUser
  /\ operation.userId = service[s].userId
  /\ edits < MaxOps
  /\ edits' = edits + 1
  /\ Emit(s, "content-change",
          [noteId |-> service[s].currentNoteId,
           userId |-> service[s].userId,
           operation |-> operation,
           baseRevision |-> baseRevision], service[s].currentNoteId)
  /\ UNCHANGED <<ot, versionVars, token, user, serverVars, now, inbox, service, screen, relayed>>

\* handleSelectionChange and the periodic heartbeat: sendCursorPosition.
SendCursorPosition(s, selection) ==
  /\ screen[s].isCollaborating
  /\ CanSend(s)
  /\ service[s].userId # NoUser
  /\ Emit(s, "cursor-position",
          [noteId |-> service[s].currentNoteId,
           cursor |-> [userId |-> service[s].userId,
                       position |-> 0,
                       selection |-> selection,
                       color |-> getUserColor(service[s].userId)]],
          service[s].currentNoteId)
  /\ UNCHANGED <<ot, versionVars, token, user, serverVars, now, inbox, service, screen, relayed, edits>>

\* data.noteId of a received payload: undefined when it has no such field.
PayloadNoteId(data) ==
  IF "noteId" \in DOMAIN data THEN data.noteId ELSE NoNote

\* this.noteSpecificListeners.get(noteId): is a listener registered.
HasListener(s, noteId) == noteId \in service[s].listeners

\* The content the listener's closure captured: the screen's content when
\* the effect ran, as it mounted.
CapturedContent == Unmounted.content

\* The note screen's content listener on a full-update of noteId: the
\* content is replaced when it differs from the captured one.
ContentListener(scr, noteId, content) ==
  IF scr.id = noteId /\ content # CapturedContent
  THEN [scr EXCEPT !.content = content, !.previousContent = content]
  ELSE scr

\* Mutant of setActiveUsers: the entry is appended without looking for an
\* existing one.
setActiveUsersAlwaysAppend(prev, cursorData) ==
  Append(prev, [userId |-> cursorData.userId,
                color |-> cursorData.color,
                position |-> cursorData.position,
                selection |-> cursorData.selection])

\* The updater the cursor listener gives setActiveUsers: the entry of
\* cursorData.userId takes the position and the selection received and keeps
\* the rest; when there is none, an entry is appended.
setActiveUsers(prev, cursorData) ==
  LET existingUserIndex == FindIndex(prev, cursorData.userId)
  IN  IF existingUserIndex > 0
      THEN [prev EXCEPT ![existingUserIndex] =
              [@ EXCEPT !.position = cursorData.position,
                        !.selection = cursorData.selection]]
      ELSE Append(prev, [userId |-> cursorData.userId,
                         color |-> cursorData.color,
                         position |-> cursorData.position,
                         selection |-> cursorData.selection])

\* The note screen's cursor listener on a cursor update of noteId.
CursorListener(scr, noteId, cursorData) ==
  IF scr.id = noteId
  THEN [scr EXCEPT !.activeUsers = setActiveUsers(@, cursorData)]
  ELSE scr

\* The client's socket delivers the next event from the server.
\* full-content-update goes to the content listener and cursor-position to
\* the cursor listener registered for the payload's noteId; content-change
\* goes to onContentChange, which is never set; the events without effect
\* on the state or without handler are dropped.
Receive(s) ==
  /\ inbox[s] # <<>>
  /\ LET m == Head(inbox[s])
     IN  screen' =
           IF /\ m.event = "full-content-update"
              /\ HasListener(s, PayloadNoteId(m.data))
           THEN [screen EXCEPT ![s] =
                   ContentListener(@, PayloadNoteId(m.data), m.data.content)]
           ELSE IF /\ m.event = "cursor-position"
                   /\ HasListener(s, PayloadNoteId(m.data))
           THEN [screen EXCEPT ![s] =
                   CursorListener(@, PayloadNoteId(m.data), m.data)]
           ELSE screen
  /\ inbox' = [inbox EXCEPT ![s] = Tail(@)]
  /\ UNCHANGED <<ot, versionVars, token, user, serverVars, now, toServer, service, relayed, edits>>

\* ------------------------------------------------------- the specification
OTIdle == [pc |-> "idle"]

\* A request slot that holds no request.
Idle == [handler |-> "idle"]

\* No note has been created.
NoHistory ==
  /\ NoteVersion = {}
  /\ requests = [r \in 1..MaxRequests |-> Idle]
  /\ objectIds = 0

SysInit ==
  /\ connected = {}
  /\ socketUser = [s \in Sockets |-> NoUser]
  /\ rooms = [n \in Notes |-> {}]
  /\ activeSessions = [n \in {} |-> <<>>]
  /\ now = 0
  /\ toServer = [s \in Sockets |-> <<>>]
  /\ inbox = [s \in Sockets |-> <<>>]
  /\ service = [s \in Sockets |->
                  [isInitialized |-> FALSE, hasSocket |-> FALSE,
                   awaiting |-> <<>>,
                   currentNoteId |-> NoNote, userId |-> NoUser,
                   connected |-> FALSE, listeners |-> {},
                   joining |-> NoNote, joiningUser |-> NoUser]]
  /\ screen = [s \in Sockets |-> Unmounted]
  /\ relayed = [n \in Notes |-> <<>>]
  /\ edits = 0

\* Every device holds the token of the user signed in on it.
SignedIn == token = [s \in Sockets |-> TokenOf(user[s])]

\* Which user is signed in where: socket 1 is a's; the others are anybody's,
\* so that one user may be signed in on two clients.
Init ==
  /\ ot = OTIdle
  /\ SysInit
  /\ NoHistory
  /\ user \in {f \in [Sockets -> UserIds] : f[1] = Users[1]}
  /\ SignedIn

\* Membership and presence: joining, leaving, cursors, disconnection and
\* the sweep.  The edit events are left to SpecEdit and SpecOps: their
\* handlers read and write none of rooms, activeSessions and now.
Next ==
  \/ \E s \in Sockets, n \in Notes : OpenNote(s, n)
  \/ \E s \in Sockets : JoinConnect(s)
  \/ \E s \in Sockets : JoinFail(s)
  \/ \E s \in Sockets : JoinEmit(s)
  \/ \E s \in Sockets : CloseNote(s)
  \/ \E s \in Sockets, selection \in Selections :
       SendCursorPosition(s, selection)
  \/ \E s \in Sockets : Receive(s)
  \/ \E s \in Sockets : JoinNoteHandler(s)
  \/ \E s \in Sockets : LeaveNoteHandler(s)
  \/ \E s \in Sockets : CursorPositionHandler(s)
  \/ \E s \in Sockets : Disconnect(s)
  \/ Sweep

Spec == Init /\ [][Next]_vars

\* Every socket has its own user: socket i is signed in as the i-th user
\* (the users wrap around when there are more sockets than users).
InitEdit ==
  /\ ot = OTIdle
  /\ SysInit
  /\ NoHistory
  /\ user = [s \in Sockets |-> Users[((s - 1) % Len(Users)) + 1]]
  /\ SignedIn

\* Editing with full-content updates: joining, leaving, disconnection and
\* the full-content-update event, at one instant of the clock.
NextEdit ==
  \/ \E s \in Sockets, n \in Notes : OpenNote(s, n)
  \/ \E s \in Sockets : JoinConnect(s)
  \/ \E s \in Sockets : JoinFail(s)
  \/ \E s \in Sockets : JoinEmit(s)
  \/ \E s \in Sockets : CloseNote(s)
  \/ \E s \in Sockets, text \in Contents : HandleContentChange(s, text)
  \/ \E s \in Sockets : Receive(s)
  \/ \E s \in Sockets : JoinNoteHandler(s)
  \/ \E s \in Sockets : LeaveNoteHandler(s)
  \/ \E s \in Sockets : FullContentUpdateHandler(s)
  \/ \E s \in Sockets : Disconnect(s)

SpecEdit == InitEdit /\ [][NextEdit]_vars

\* Editing with operations: joining, leaving and the content-change event,
\* at one instant of the clock.
NextOps ==
  \/ \E s \in Sockets, n \in Notes : OpenNote(s, n)
  \/ \E s \in Sockets : JoinConnect(s)
  \/ \E s \in Sockets : JoinEmit(s)
  \/ \E s \in Sockets : CloseNote(s)
  \/ \E s \in Sockets, u \in UserIds : \E operation \in SentOps(u) :
       SendOperation(s, operation)
  \/ \E s \in Sockets : Receive(s)
  \/ \E s \in Sockets : JoinNoteHandler(s)
  \/ \E s \in Sockets : LeaveNoteHandler(s)
  \/ \E s \in Sockets : ContentChangeHandler(s)

SpecOps == InitEdit /\ [][NextOps]_vars

\* Editing with operations that state their base revision: joining and the
\* content-change event, at one instant of the clock.
NextWire ==
  \/ \E s \in Sockets, n \in Notes : OpenNote(s, n)
  \/ \E s \in Sockets : JoinConnect(s)
  \/ \E s \in Sockets : JoinEmit(s)
  \/ \E s \in Sockets, u \in UserIds, baseRevision \in 0..MaxOps :
       \E operation \in SentOps(u) : SendEdit(s, operation, baseRevision)
  \/ \E s \in Sockets : Receive(s)
  \/ \E s \in Sockets : JoinNoteHandler(s)
  \/ \E s \in Sockets : ContentChangeHandler(s)

SpecWire == InitEdit /\ [][NextWire]_vars

\* Connecting with any token: the handshake, joining, cursors and
\* disconnection, at one instant of the clock.
InitAuth ==
  /\ ot = OTIdle
  /\ SysInit
  /\ NoHistory
  /\ user = [s \in Sockets |-> Users[((s - 1) % Len(Users)) + 1]]
  /\ token \in [Sockets -> Tokens]

NextAuth ==
  \/ \E s \in Sockets, n \in Notes : OpenNote(s, n)
  \/ \E s \in Sockets : JoinConnect(s)
  \/ \E s \in Sockets : JoinFail(s)
  \/ \E s \in Sockets : JoinEmit(s)
  \/ \E s \in Sockets, selection \in Selections :
       SendCursorPosition(s, selection)
  \/ \E s \in Sockets : Receive(s)
  \/ \E s \in Sockets : JoinNoteHandler(s)
  \/ \E s \in Sockets : CursorPositionHandler(s)
  \/ \E s \in Sockets : Disconnect(s)

SpecAuth == InitAuth /\ [][NextAuth]_vars

\* Losing and regaining the connection: joining, cursors, the full-content
\* update, disconnection and reconnection, at one instant of the clock.
NextReconnect ==
  \/ \E s \in Sockets, n \in Notes : OpenNote(s, n)
  \/ \E s \in Sockets : JoinConnect(s)
  \/ \E s \in Sockets : JoinEmit(s)
  \/ \E s \in Sockets, selection \in Selections :
       SendCursorPosition(s, selection)
  \/ \E s \in Sockets, text \in Contents : HandleContentChange(s, text)
  \/ \E s \in Sockets : Receive(s)
  \/ \E s \in Sockets : JoinNoteHandler(s)
  \/ \E s \in Sockets : CursorPositionHandler(s)
  \/ \E s \in Sockets : FullContentUpdateHandler(s)
  \/ \E s \in Sockets : Disconnect(s)
  \/ \E s \in Sockets : Reconnect(s)

SpecReconnect == InitEdit /\ [][NextReconnect]_vars

\* Initialization of the service: screens mounting while the backend is
\* tested, the two outcomes of the test, joining, leaving and disconnect(),
\* at one instant of the clock.
NextInit ==
  \/ \E s \in Sockets, n \in Notes : StartJoin(s, n)
  \/ \E s \in Sockets, i \in 1..MaxCalls : InitUnreachable(s, i)
  \/ \E s \in Sockets, i \in 1..MaxCalls : InitReachable(s, i)
  \/ \E s \in Sockets, n \in Notes : OpenNote(s, n)
  \/ \E s \in Sockets, n \in Notes : OpenNoteRejected(s, n)
  \/ \E s \in Sockets : JoinConnect(s)
  \/ \E s \in Sockets : JoinFail(s)
  \/ \E s \in Sockets : JoinEmit(s)
  \/ \E s \in Sockets : CloseNote(s)
  \/ \E s \in Sockets : Receive(s)
  \/ \E s \in Sockets : JoinNoteHandler(s)
  \/ \E s \in Sockets : LeaveNoteHandler(s)
  \/ \E s \in Sockets : ServiceDisconnect(s)

SpecInit == InitEdit /\ [][NextInit]_vars

\* --------------------------------------------------------- version history
\* The records of one note in the NoteVersion collection: id stands for
\* _id (compared for equality only), version for the version number.
\* cleanupOldVersions keeps the KeepLimit records of highest version.
KeepLimit == 20

Versions(docs) == {d.version : d \in docs}

Highest(S) == CHOOSE v \in S : \A w \in S : w <= v

\* NoteVersion.findOne({ noteId }).sort({ version: -1 }), then
\* latestVersion?.version || 0.
LatestVersion(docs) == IF docs = {} THEN 0 ELSE Highest(Versions(docs))

\* Requests in progress that will save a record.
Saving == {r \in 1..MaxRequests :
             requests[r].handler \notin {"idle", "cleanupOldVersions"}}

\* A request arrives on slot r while records may still be saved.
Arrives(r) ==
  /\ requests[r] = Idle
  /\ objectIds + Cardinality(Saving) < MaxSaves

\* new NoteVersion({ version, changeType, ... }).save() by request r: the
\* collection has no unique index, so the save always succeeds.
SaveVersion(r, version, changeType) ==
  /\ NoteVersion' = NoteVersion \cup {[id |-> objectIds + 1,
                                       version |-> version,
                                       changeType |-> changeType]}
  /\ objectIds' = objectIds + 1
  /\ requests' = [requests EXCEPT ![r] = Idle]

\* createVersion, to the end of its read of the latest version number.
CreateVersionFind(r) ==
  /\ Arrives(r)
  /\ requests' = [requests EXCEPT ![r] =
                     [handler |-> "createVersion",
                      latest |-> LatestVersion(NoteVersion)]]
  /\ UNCHANGED <<ot, collabVars, NoteVersion, objectIds>>

\* createVersion, from nextVersion on: saves the record latest + 1.
CreateVersionSave(r) ==
  /\ requests[r].handler = "createVersion"
  /\ SaveVersion(r, requests[r].latest + 1, "update")
  /\ UNCHANGED <<ot, collabVars>>

\* updateNote, to the end of its read of the latest version number.
UpdateNoteFind(r) ==
  /\ Arrives(r)
  /\ requests' = [requests EXCEPT ![r] =
                     [handler |-> "updateNote",
                      latest |-> LatestVersion(NoteVersion)]]
  /\ UNCHANGED <<ot, collabVars, NoteVersion, objectIds>>

\* updateNote, from nextVersion on: saves the record latest + 1.
UpdateNoteSave(r) ==
  /\ requests[r].handler = "updateNote"
  /\ SaveVersion(r, requests[r].latest + 1, "update")
  /\ UNCHANGED <<ot, collabVars>>

\* restoreVersion(noteId, versionNumber), to the end of the update of the
\* note: the version is found (otherwise the answer is 404 and nothing
\* changes).
RestoreVersionFind(r, versionNumber) ==
  /\ Arrives(r)
  /\ versionNumber \in Versions(NoteVersion)
  /\ requests' = [requests EXCEPT ![r] =
                     [handler |-> "restoreVersion",
                      version |-> versionNumber]]
  /\ UNCHANGED <<ot, collabVars, NoteVersion, objectIds>>

\* restoreVersion, the restore record: version.version + 1.
RestoreVersionSave(r) ==
  /\ requests[r].handler = "restoreVersion"
  /\ SaveVersion(r, requests[r].version + 1, "restore")
  /\ UNCHANGED <<ot, collabVars>>

\* The results NoteVersion.find({ noteId }).sort({ version: -1 })
\* .limit(KeepLimit).select('_id') can give: the ids of KeepLimit records
\* of highest version, records of equal version coming in any order.
KeepSets(docs) ==
  IF Cardinality(docs) <= KeepLimit
  THEN {{d.id : d \in docs}}
  ELSE LET least == CHOOSE v \in Versions(docs) :
                      /\ Cardinality({d \in docs : d.version >= v}) >= KeepLimit
                      /\ Cardinality({d \in docs : d.version > v}) < KeepLimit
           above == {d \in docs : d.version > least}
           ties  == {d \in docs : d.version = least}
       IN  {{d.id : d \in above \cup T} :
              T \in {U \in SUBSET ties :
                       Cardinality(U) = KeepLimit - Cardinality(above)}}

\* cleanupOldVersions, to the end of its read of the records to keep.
CleanupFind(r) ==
  /\ requests[r] = Idle
  /\ \E versionIdsToKeep \in KeepSets(NoteVersion) :
       requests' = [requests EXCEPT ![r] =
                      [handler |-> "cleanupOldVersions",
                       keep |-> versionIdsToKeep]]
  /\ UNCHANGED <<ot, collabVars, NoteVersion, objectIds>>

\* cleanupOldVersions, deleteMany({ noteId, _id: { $nin: versionIdsToKeep } }).
CleanupDelete(r) ==
  /\ requests[r].handler = "cleanupOldVersions"
  /\ NoteVersion' = {d \in NoteVersion : d.id \in requests[r].keep}
  /\ requests' = [requests EXCEPT ![r] = Idle]
  /\ UNCHANGED <<ot, collabVars, objectIds>>

\* The records after createNote and k - 1 updateNote requests processed one
\* after the other.
History(k) ==
  {[id |-> i - k, version |-> i,
    changeType |-> IF i = 1 THEN "create" ELSE "update"] : i \in 1..k}

Histories == {History(k) : k \in {1, KeepLimit - 1, KeepLimit, KeepLimit + 1}}

InitVersions ==
  /\ ot = OTIdle
  /\ SysInit
  /\ user = [s \in Sockets |-> Users[1]]
  /\ SignedIn
  /\ NoteVersion \in Histories
  /\ requests = [r \in 1..MaxRequests |-> Idle]
  /\ objectIds = 0

NextVersions ==
  \/ \E r \in 1..MaxRequests : CreateVersionFind(r)
  \/ \E r \in 1..MaxRequests : CreateVersionSave(r)
  \/ \E r \in 1..MaxRequests : UpdateNoteFind(r)
  \/ \E r \in 1..MaxRequests : UpdateNoteSave(r)
  \/ \E r \in 1..MaxRequests, versionNumber \in 1..(KeepLimit + 1 + MaxSaves) :
       RestoreVersionFind(r, versionNumber)
  \/ \E r \in 1..MaxRequests : RestoreVersionSave(r)
  \/ \E r \in 1..MaxRequests : CleanupFind(r)
  \/ \E r \in 1..MaxRequests : CleanupDelete(r)

SpecVersions == InitVersions /\ [][NextVersions]_vars

\* The requests that read the latest version number and save the next one,
\* with the cleanup; no version is restored.
NextSaves ==
  \/ \E r \in 1..MaxRequests : CreateVersionFind(r)
  \/ \E r \in 1..MaxRequests : CreateVersionSave(r)
  \/ \E r \in 1..MaxRequests : UpdateNoteFind(r)
  \/ \E r \in 1..MaxRequests : UpdateNoteSave(r)
  \/ \E r \in 1..MaxRequests : CleanupFind(r)
  \/ \E r \in 1..MaxRequests : CleanupDelete(r)

SpecSaves == InitVersions /\ [][NextSaves]_vars

\* ---------------------------------------- specification of the functions
\* ot.pc: "input" (two operations issued against ot.base), "transformed"
\* (ot.t1, ot.t2 = transformOperations(op1, op2)), "applied" (ot.r12 = base
\* with op1 then op2' applied, ot.r21 = base with op2 then op1' applied).
NoOp == RetainOp(0, "a")

InitOT ==
  /\ SysInit
  /\ NoHistory
  /\ user = [s \in Sockets |-> Users[1]]
  /\ SignedIn
  /\ \E base \in BaseTexts : \E op1 \in ValidOps(base), op2 \in ValidOps(base) :
    ot = [pc |-> "input", base |-> base, op1 |-> op1, op2 |-> op2,
          t1 |-> NoOp, t2 |-> NoOp, r12 |-> <<>>, r21 |-> <<>>]

OTTransform ==
  /\ ot.pc = "input"
  /\ LET t == transformOperations(ot.op1, ot.op2)
     IN  ot' = [ot EXCEPT !.pc = "transformed", !.t1 = t[1], !.t2 = t[2]]
  /\ UNCHANGED sysVars

OTApply ==
  /\ ot.pc = "transformed"
  /\ ot' = [ot EXCEPT !.pc = "applied",
              !.r12 = applyOperation(applyOperation(ot.base, ot.op1), ot.t2),
              !.r21 = applyOperation(applyOperation(ot.base, ot.op2), ot.t1)]
  /\ UNCHANGED sysVars

NextOT == OTTransform \/ OTApply

SpecOT == InitOT /\ [][NextOT]_vars

\* --------------------------------------- specification of applyOperation
\* The insert and delete operations a caller can pass for base, in range or
\* up to one character beyond it.
AnyOps(base) ==
  {InsertOp(p, c, u) : p \in 0..(Len(base) + 1), c \in Payloads, u \in UserIds}
    \cup
  {DeleteOp(p, l, u) : p \in 0..(Len(base) + 1), l \in 1..(Len(base) + 1),
                       u \in UserIds}

\* ot.pc: "apply" (ot.op is to be applied to ot.base), "done" (ot.result =
\* applyOperation(base, op)).
InitApply ==
  /\ SysInit
  /\ NoHistory
  /\ user = [s \in Sockets |-> Users[1]]
  /\ SignedIn
  /\ \E base \in BaseTexts : \E op \in AnyOps(base) :
       ot = [pc |-> "apply", base |-> base, op |-> op, result |-> <<>>]

ApplyOne ==
  /\ ot.pc = "apply"
  /\ ot' = [ot EXCEPT !.pc = "done",
                      !.result = applyOperation(ot.base, ot.op)]
  /\ UNCHANGED sysVars

NextApply == ApplyOne

SpecApply == InitApply /\ [][NextApply]_vars

\* ------------------------------ specification of the cursor listener
\* The cursor updates a client can receive: any user's, with either colour.
Positions == {0, 1}
CursorUpdates ==
  [userId : UserIds, color : {getUserColor(u) : u \in UserIds},
   position : Positions, selection : Selections]

\* No update received yet.
NoCursor == [userId |-> NoUser]

\* ot.activeUsers: the screen's active-user list, [] as the screen mounts;
\* ot.last: history, the update received last for each user.
InitPresence ==
  /\ SysInit
  /\ NoHistory
  /\ user = [s \in Sockets |-> Users[1]]
  /\ SignedIn
  /\ ot = [pc |-> "presence", activeUsers |-> Unmounted.activeUsers,
           last |-> [u \in UserIds |-> NoCursor]]

\* The cursor listener is called with cursorData.
CursorChange(cursorData) ==
  /\ ot.pc = "presence"
  /\ ot' = [ot EXCEPT !.activeUsers = setActiveUsers(@, cursorData),
                      !.last[cursorData.userId] = cursorData]
  /\ UNCHANGED sysVars

NextPresence == \E cursorData \in CursorUpdates : CursorChange(cursorData)

SpecPresence == InitPresence /\ [][NextPresence]_vars

\* C2: convergence of transform: for every base and every pair of valid
\* operations, base with op1 then op2' equals base with op2 then op1'.
C2_Convergence == ot.pc = "applied" => ot.r12 = ot.r21

\* C9: insert tie-break: for two inserts at the identical position by
\* different authors, the insert of the lexicographically smaller author id
\* comes first in the final text, whichever operation is the first argument
\* of transformOperations, in both orders of application.
AuthorRank(userId) == CHOOSE i \in 1..Len(Users) : Users[i] = userId

C9_TieBreakByAuthor ==
  (/\ ot.pc = "applied"
   /\ ot.op1.type = "insert" /\ ot.op2.type = "insert"
   /\ ot.op1.position = ot.op2.position
   /\ ot.op1.userId # ot.op2.userId)
  => LET first  == IF AuthorRank(ot.op1.userId) < AuthorRank(ot.op2.userId)
                   THEN ot.op1 ELSE ot.op2
         second == IF first = ot.op1 THEN ot.op2 ELSE ot.op1
         final  == Slice(ot.base, 0, first.position) \o first.content
                     \o second.content \o SliceFrom(ot.base, first.position)
     IN  ot.r12 = final /\ ot.r21 = final

\* ------------------------------------------------- steps, seen from outside
\* Socket s's client takes the next event out of its inbox (a disconnection
\* also empties the inbox, and leaves the client not connected).
ReceiveStep(s) ==
  /\ inbox[s] # <<>>
  /\ inbox'[s] = Tail(inbox[s])
  /\ service'[s].connected

\* The server handles the next event of socket s.
HandleStep(s, event) ==
  /\ Pending(s, event)
  /\ toServer'[s] = Tail(toServer[s])
  /\ s \in connected'

\* Nothing is in flight from or to socket s.
Quiet(s) == toServer[s] = <<>> /\ inbox[s] = <<>>

\* Socket s has joined note n's room and its client shows note n with the
\* listeners registered.
Editing(s, n) ==
  /\ s \in rooms[n]
  /\ screen[s].id = n
  /\ screen[s].isCollaborating
  /\ HasListener(s, n)
  /\ service[s].currentNoteId = n

\* C1: when a client that is joined to note N and has a content listener
\* registered for N is delivered a full-content-update broadcast into N's
\* room, the listener is invoked with the sent content: the content it
\* displays becomes the sent content.
C1_UpdateReachesListener ==
  [][\A s \in Sockets :
       (/\ ReceiveStep(s)
        /\ Head(inbox[s]).event = "full-content-update"
        /\ Editing(s, Head(inbox[s]).room)
        /\ Head(inbox[s]).data.content # CapturedContent)
       => screen'[s].content = Head(inbox[s]).data.content]_vars

\* C3: once no edit is in flight, all members of a room hold identical
\* content.
C3_MembersConverge ==
  \A n \in Notes : \A s1 \in Sockets, s2 \in Sockets :
    (/\ Editing(s1, n) /\ Quiet(s1)
     /\ Editing(s2, n) /\ Quiet(s2))
    => screen[s1].content = screen[s2].content

\* C4: every edit the server accepts for a room is broadcast with the
\* room's revision, which is the number of edits accepted for the room so
\* far: one more per accepted edit.
C4_RevisionPerEdit ==
  [][\A n \in Notes : \A s \in Sockets :
       (/\ relayed'[n] # relayed[n]
        /\ inbox'[s] # inbox[s])
       => LET m == inbox'[s][Len(inbox'[s])]
          IN  /\ "revision" \in DOMAIN m.data
              /\ m.data.revision = Len(relayed'[n])]_vars

\* C5: a participant that joined a room after its latest edit was broadcast
\* (so that the join acknowledgement has to bring it the content), that has
\* typed nothing itself and to which nothing is in flight holds the room's
\* canonical content: the content of the latest edit the server accepted.
C5_JoinerHoldsCanonical ==
  \A n \in Notes : \A s \in Sockets :
    (/\ Editing(s, n) /\ Quiet(s)
     /\ relayed[n] # <<>>
     /\ relayed[n][Len(relayed[n])].kind = "full"
     /\ s \notin relayed[n][Len(relayed[n])].members
     /\ screen[s].content = Unmounted.content)
    => screen[s].content = relayed[n][Len(relayed[n])].content

\* C6: a note's session list never holds two sessions with the same userId.
C6_NoDuplicateSessions ==
  \A n \in DOMAIN activeSessions :
    \A i \in 1..Len(activeSessions[n]), j \in 1..Len(activeSessions[n]) :
      activeSessions[n][i].userId = activeSessions[n][j].userId => i = j

\* C6, witness: two sockets of one user have joined the same note (the
\* second join found the userId present) and the list holds one session.
C6_Witness ==
  \E n \in DOMAIN activeSessions : \E s1 \in rooms[n], s2 \in rooms[n] :
    /\ s1 # s2
    /\ socketUser[s1] = socketUser[s2]
    /\ Len(activeSessions[n]) = 1
    /\ activeSessions[n][1].userId = socketUser[s1]

\* C7: when the sweep removes a participant's session from a room, a
\* user-left notification for it is sent to every remaining member.
SweepStep == now' = now + 1

C7_EvictionNotified ==
  [][SweepStep =>
       \A n \in DOMAIN activeSessions : \A i \in 1..Len(activeSessions[n]) :
         LET userId == activeSessions[n][i].userId
         IN  (n \notin DOMAIN activeSessions'
                \/ FindIndex(activeSessions'[n], userId) = 0)
             => \A r \in rooms[n] :
                  socketUser[r] # userId
                  => /\ inbox'[r] # inbox[r]
                     /\ inbox'[r][Len(inbox'[r])].event = "user-left"
                     /\ inbox'[r][Len(inbox'[r])].data.userId = userId]_vars

\* C8: an inbound cursor message is a heartbeat: when the server has handled
\* it, the sender's session in that note is active as of now.
C8_CursorIsHeartbeat ==
  [][\A s \in Sockets :
       HandleStep(s, "cursor-position")
       => LET data   == Head(toServer[s]).data
              userId == data.cursor.userId
          IN  (/\ data.noteId \in DOMAIN activeSessions
               /\ FindIndex(activeSessions[data.noteId], userId) # 0)
              => LET sessions == activeSessions'[data.noteId]
                 IN  sessions[FindIndex(sessions, userId)].lastActive
                       = now]_vars

\* The operation op rebased onto the operations of since (the entries of a
\* room's history, oldest first): transformed against each in turn.
RECURSIVE Rebase(_, _)
Rebase(op, since) ==
  IF since = <<>> THEN op
  ELSE Rebase(transformOperations(op, Head(since).operation)[1], Tail(since))

\* C10: an operation whose base revision is older than the room's revision
\* is broadcast rebased: transformed against every operation (of the other
\* members) accepted since its base revision.
C10_BroadcastRebased ==
  \A n \in Notes : \A i \in 1..Len(relayed[n]) :
    LET entry == relayed[n][i]
        since == SubSeq(relayed[n], entry.base + 1, i - 1)
    IN  (/\ entry.kind = "operation"
         /\ entry.base < i - 1
         /\ \A k \in 1..Len(since) :
              since[k].kind = "operation" /\ since[k].socket # entry.socket)
        => entry.operation = Rebase(entry.authored, since)

\* C11: an edit whose stated base revision is greater than the room's
\* revision (the number of edits accepted for the room) is rejected: it is
\* not accepted, nothing is sent to the other members, and the sender alone
\* is sent a rejection.
RejectionEvents == {"edit-rejected", "error"}

C11_AheadEditRejected ==
  [][\A s \in Sockets :
       (/\ HandleStep(s, "content-change")
        /\ "baseRevision" \in DOMAIN Head(toServer[s]).data
        /\ Head(toServer[s]).data.baseRevision
             > Len(relayed[Head(toServer[s]).data.noteId]))
       => /\ relayed' = relayed
          /\ \A r \in Sockets \ {s} : inbox'[r] = inbox[r]
          /\ Len(inbox'[s]) = Len(inbox[s]) + 1
          /\ inbox'[s][Len(inbox'[s])].event \in RejectionEvents]_vars

\* C12: every join is answered to the joining client itself with a snapshot
\* of the room: the server sends the joiner an event that carries the
\* content, the revision and the participant list.
C12_JoinAnswered ==
  [][\A s \in Sockets :
       HandleStep(s, "join-note")
       => /\ Len(inbox'[s]) = Len(inbox[s]) + 1
          /\ {"content", "revision", "participants"}
               \subseteq DOMAIN inbox'[s][Len(inbox'[s])].data]_vars

\* The last event of socket r's inbox after the step is a new one, named
\* event, about userId.
Notified(r, event, userId) ==
  /\ inbox'[r] = Append(inbox[r], inbox'[r][Len(inbox'[r])])
  /\ inbox'[r][Len(inbox'[r])].event = event
  /\ inbox'[r][Len(inbox'[r])].data.userId = userId

\* C13: every join of a room sends user-joined for the participant to each
\* socket already in the room and nothing to the joiner; every leave-note
\* sends user-left for the participant to each socket remaining in the room.
C13_JoinLeaveNotified ==
  [][\A s \in Sockets :
       /\ HandleStep(s, "join-note")
          => LET data == Head(toServer[s]).data
             IN  /\ \A r \in rooms[data.noteId] \ {s} :
                      Notified(r, "user-joined", data.userId)
                 /\ inbox'[s] = inbox[s]
       /\ HandleStep(s, "leave-note")
          => LET data == Head(toServer[s]).data
             IN  /\ \A r \in rooms[data.noteId] \ {s} :
                      Notified(r, "user-left", data.userId)
                 /\ inbox'[s] = inbox[s]]_vars

\* C13, witness: a socket that is in a room has been sent user-left for
\* another user, whose socket is no longer in the room.
C13_Witness ==
  \E r \in Sockets, s \in Sockets :
    /\ r # s
    /\ inbox[r] # <<>>
    /\ Head(inbox[r]).event = "user-left"
    /\ r \in rooms[Head(inbox[r]).room]
    /\ s \notin rooms[Head(inbox[r]).room]
    /\ Head(inbox[r]).data.userId = user[s]
    /\ user[s] # user[r]

\* The connection of socket s closes.
DisconnectStep(s) == s \in connected /\ s \notin connected'

\* C14: closing a connection acts as a leave for every room the socket was
\* in: afterwards the participant it joined as is in no note's session list,
\* and each socket remaining in such a room is sent user-left for it, as for
\* a leave-note.
C14_DisconnectIsLeave ==
  [][\A s \in Sockets :
       DisconnectStep(s)
       => /\ \A n \in DOMAIN activeSessions' :
               FindIndex(activeSessions'[n], socketUser[s]) = 0
          /\ \A n \in Notes :
               s \in rooms[n]
               => \A r \in rooms[n] \ {s} :
                    Notified(r, "user-left", socketUser[s])]_vars

\* C15: the registry holds no entry whose session list is empty.
C15_NoEmptyRoom ==
  \A n \in DOMAIN activeSessions : Len(activeSessions[n]) > 0

\* C16: a cursor message of a joined participant for note N reaches the
\* cursor listener registered for N on every other member (the member's
\* active-user list then shows the sender with the selection sent), and
\* the server does not send it back to the sender.
C16_CursorReachesListener ==
  [][\A s \in Sockets :
       /\ (/\ ReceiveStep(s)
           /\ Head(inbox[s]).event = "cursor-position"
           /\ Editing(s, Head(inbox[s]).room))
          => LET data  == Head(inbox[s]).data
                 index == FindIndex(screen'[s].activeUsers, data.userId)
             IN  /\ index > 0
                 /\ screen'[s].activeUsers[index].selection = data.selection
       /\ HandleStep(s, "cursor-position") => inbox'[s] = inbox[s]]_vars

\* C17: presence is last-write-wins: after any sequence of cursor updates
\* the active-user list holds at most one entry per userId, every user an
\* update was received for has an entry, and the entry's position and
\* selection are those of the update received last for that userId.
C17_PresenceLastWins ==
  ot.pc = "presence"
  => /\ \A i \in 1..Len(ot.activeUsers), j \in 1..Len(ot.activeUsers) :
          ot.activeUsers[i].userId = ot.activeUsers[j].userId => i = j
     /\ \A u \in UserIds :
          ot.last[u] # NoCursor
          => \E i \in 1..Len(ot.activeUsers) :
               /\ ot.activeUsers[i].userId = u
               /\ ot.activeUsers[i].position = ot.last[u].position
               /\ ot.activeUsers[i].selection = ot.last[u].selection

\* C17, witness: a user's entry was overwritten by a later update: it still
\* has the colour of the first one, which is not that of the last.
C17_Witness ==
  /\ ot.pc = "presence"
  /\ Len(ot.activeUsers) = Len(Users)
  /\ \E i \in 1..Len(ot.activeUsers) :
       ot.activeUsers[i].color # ot.last[ot.activeUsers[i].userId].color

\* The token is none, is not three dot-separated parts, has a payload
\* without a subject ({} or an empty one), or has a subject the identity
\* provider does not know (z).
Unauthenticated(t) ==
  \/ t = <<>>
  \/ Cardinality({i \in 1..Len(t) : t[i] = Dot}) # 2
  \/ \E i \in 1..Len(t), j \in 1..Len(t) :
       /\ i < j /\ t[i] = Dot /\ t[j] = Dot
       /\ SubSeq(t, i + 1, j - 1) \in {<<"{}">>, <<"sub=">>, <<"sub=z">>}

\* C18: no room logic runs for an unauthenticated connection: a socket whose
\* handshake carries such a token is never connected, so no handler is
\* registered for it, nothing it sends is in flight to a handler, it is in
\* no room and no user is attached to it.
C18_NoRoomLogicUnauthenticated ==
  \A s \in Sockets :
    Unauthenticated(token[s])
    => /\ s \notin connected
       /\ toServer[s] = <<>>
       /\ socketUser[s] = NoUser
       /\ \A n \in Notes : s \notin rooms[n]

\* C18, witness: a client with such a token has tried to join a note and
\* failed, while a client with a user's token is in the room.
C18_Witness ==
  \E s \in Sockets, r \in Sockets :
    /\ Unauthenticated(token[s])
    /\ token[s] # <<>>
    /\ screen[s].id # NoNote
    /\ service[s].joining = NoNote
    /\ ~screen[s].isCollaborating
    /\ r \in rooms[screen[s].id]

\* The value that reports the error: no text (a text is a sequence of
\* characters).
OutOfBounds == <<"OutOfBounds">>

\* C19: applyOperation reports OutOfBounds, and returns no modified text,
\* whenever an insert's position exceeds the text length or a delete's
\* position + length exceeds the text length.
C19_OutOfBoundsReported ==
  (/\ ot.pc = "done"
   /\ \/ ot.op.type = "insert" /\ ot.op.position > Len(ot.base)
      \/ ot.op.type = "delete"
           /\ ot.op.position + ot.op.length > Len(ot.base))
  => ot.result = OutOfBounds

\* The number of characters of the delete op's range that the delete other
\* leaves in place.
Surviving(op, other) ==
  Cardinality({i \in op.position..(op.position + op.length - 1) :
                 i < other.position \/ i >= other.position + other.length})

\* C20: for two concurrent deletes, each transformed delete covers only the
\* characters the other delete left in place: its position is not negative
\* and its length is the number of characters of its range that survive
\* the other delete.
C20_DeleteClipped ==
  (/\ ot.pc = "applied"
   /\ ot.op1.type = "delete" /\ ot.op2.type = "delete")
  => /\ ot.t1.position >= 0 /\ ot.t2.position >= 0
     /\ ot.t1.length = Surviving(ot.op1, ot.op2)
     /\ ot.t2.length = Surviving(ot.op2, ot.op1)

\* The insert and the delete of a pair of one insert and one delete, with
\* what transformOperations made of them.
MixedPair ==
  /\ ot.pc = "applied"
  /\ {ot.op1.type, ot.op2.type} = {"insert", "delete"}

TheInsert == IF ot.op1.type = "insert" THEN ot.op1 ELSE ot.op2
TheDelete == IF ot.op1.type = "delete" THEN ot.op1 ELSE ot.op2
TheInsertT == IF ot.op1.type = "insert" THEN ot.t1 ELSE ot.t2
TheDeleteT == IF ot.op1.type = "delete" THEN ot.t1 ELSE ot.t2

\* part occurs in text, contiguously.
Contains(text, part) ==
  \E i \in 0..(Len(text) - Len(part)) :
    SubSeq(text, i + 1, i + Len(part)) = part

\* C21: for a concurrent insert and delete where the insert position lies
\* strictly inside the deleted range, the inserted text is present in the
\* final text in both application orders, and the transformed insert's
\* position is not negative.
C21_InsertInsideDeleteKept ==
  (/\ MixedPair
   /\ TheDelete.position < TheInsert.position
   /\ TheInsert.position < TheDelete.position + TheDelete.length)
  => /\ Contains(ot.r12, TheInsert.content)
     /\ Contains(ot.r21, TheInsert.content)
     /\ TheInsertT.position >= 0

CursorsInFlight ==
  UNION {{toServer[s][i].data.cursor :
            i \in {k \in 1..Len(toServer[s]) :
                     toServer[s][k].event = "cursor-position"}} :
           s \in Sockets}
    \cup
  UNION {{[userId |-> inbox[s][i].data.userId,
           color |-> inbox[s][i].data.color,
           position |-> inbox[s][i].data.position,
           selection |-> inbox[s][i].data.selection] :
            i \in {k \in 1..Len(inbox[s]) :
                     inbox[s][k].event = "cursor-position"}} :
           s \in Sockets}

\* C23: the colour of every cursor message is one of the ten palette
\* entries, and two cursor messages with the same userId carry the same
\* colour.
C23_ColourFromUserId ==
  /\ Len(colors) = 10
  /\ \A c \in CursorsInFlight :
       /\ \E i \in 1..Len(colors) : c.color = colors[i]
       /\ \A d \in CursorsInFlight : c.userId = d.userId => c.color = d.color

\* C23, witness: two clients of one user have each emitted a cursor
\* message, with different selections.
C23_Witness ==
  \E s \in Sockets, r \in Sockets :
    /\ s # r
    /\ Pending(s, "cursor-position") /\ Pending(r, "cursor-position")
    /\ Head(toServer[s]).data.cursor.userId
         = Head(toServer[r]).data.cursor.userId
    /\ Head(toServer[s]).data.cursor.selection
         # Head(toServer[r]).data.cursor.selection

\* C24: the server relays a content-change, full-content-update or
\* cursor-position message into a note's room only if the sending socket is
\* in that room: when it is not, the handler sends nothing to another
\* socket.
RelayedEvents == {"content-change", "full-content-update", "cursor-position"}

C24_RelayOnlyIfJoined ==
  [][\A s \in Sockets : \A event \in RelayedEvents :
       (/\ HandleStep(s, event)
        /\ s \notin rooms[Head(toServer[s]).data.noteId])
       => \A r \in Sockets \ {s} : inbox'[r] = inbox[r]]_vars

\* C25: for each note, the set of userIds in the server's session list
\* equals the set of users that have at least one connected socket in the
\* note's room.
C25_SessionsMatchRoom ==
  \A n \in Notes :
    {SessionsOf(n)[i].userId : i \in 1..Len(SessionsOf(n))}
      = {socketUser[s] : s \in rooms[n] \cap connected}

\* The notes for which client s has emitted join-note without a later
\* leave-note, once the server has handled all that s emitted: the rooms
\* its socket is in (join-note is socket.join, leave-note socket.leave, in
\* the order emitted).
JoinedNotes(s) == {n \in Notes : s \in rooms[n]}

\* C26: after any sequence of joinNote and leaveNote calls the set of notes
\* the client has joined and not left is empty or {currentNoteId}, and a
\* full-content-update or cursor-position is only emitted for a note of
\* that set.
C26_JoinedIsCurrent ==
  \A s \in Sockets :
    /\ (s \in connected /\ toServer[s] = <<>>)
       => JoinedNotes(s) \subseteq {service[s].currentNoteId}
    /\ (Pending(s, "full-content-update") \/ Pending(s, "cursor-position"))
       => Head(toServer[s]).data.noteId \in JoinedNotes(s)

\* ------------------------------------------------------------------ C27
\* The service of socket s is initialized and holds no socket.
Socketless(s) == service[s].isInitialized /\ ~service[s].hasSocket

\* The step emits join-note from socket s.
EmitsJoin(s) ==
  /\ Len(toServer'[s]) = Len(toServer[s]) + 1
  /\ toServer'[s][Len(toServer'[s])].type = "join-note"

\* C27 (as stated): once the service is initialized without a socket
\* (the backend was unreachable, or disconnect() was called), it stays so,
\* and the client never emits join-note again.
C27_InitializedStaysSocketless ==
  [][\A s \in Sockets :
       Socketless(s)
         => /\ Socketless(s)'
            /\ ~EmitsJoin(s)]_vars

\* C27 (amended): once the service is initialized without a socket and no
\* joinNote call is still inside ensureInitialized, it stays so, and the
\* client never emits join-note again: every later joinNote is rejected.
C27_SocketlessOnceSettled ==
  [][\A s \in Sockets :
       (Socketless(s) /\ service[s].awaiting = <<>>)
         => /\ Socketless(s)'
            /\ service'[s].awaiting = <<>>
            /\ ~EmitsJoin(s)]_vars

\* C27 witness: after disconnect() of a service that had connected, a
\* screen has mounted and its joinNote was rejected.
C27_Witness ==
  \E s \in Sockets :
    /\ Socketless(s)
    /\ service[s].awaiting = <<>>
    /\ socketUser[s] # NoUser
    /\ screen[s].id # NoNote
    /\ service[s].currentNoteId = screen[s].id
    /\ ~screen[s].isCollaborating

\* ------------------------------------------------------------------ C28
\* C28: no two version records of the note carry the same version number,
\* also when updateNote and createVersion are processed concurrently.
C28_VersionNumbersUnique ==
  \A d1 \in NoteVersion, d2 \in NoteVersion :
    d1.version = d2.version => d1 = d2

\* ------------------------------------------------------------------ C29
\* C29: the restore record that restoreVersion saves has a version number
\* strictly greater than every version number recorded before it.
C29_RestoreIsNewest ==
  [][\A r \in 1..MaxRequests :
       (requests[r].handler = "restoreVersion" /\ requests'[r] = Idle)
         => \A d \in NoteVersion' \ NoteVersion :
              \A e \in NoteVersion : d.version > e.version]_vars

\* ------------------------------------------------------------------ C30
\* C30: the delete of cleanupOldVersions leaves at most KeepLimit records
\* and leaves a record of the highest version number, also when a record
\* was saved between its read and its delete.
C30_CleanupKeepsNewest ==
  [][\A r \in 1..MaxRequests :
       (requests[r].handler = "cleanupOldVersions" /\ requests'[r] = Idle)
         => /\ Cardinality(NoteVersion') <= KeepLimit
            /\ LatestVersion(NoteVersion') = LatestVersion(NoteVersion)]_vars

====
